---------------------------- MODULE Spec2Model ----------------------------
(***************************************************************************)
(* A model of chess-autoracer (src/main.py): the Chessboard class (screen  *)
(* geometry, clicks), the ChessEngine class (piece matrix to FEN, the      *)
(* Stockfish query) and the main loop.                                     *)
(*                                                                         *)
(* Text is a sequence of one-character strings.  A pixel coordinate is     *)
(* kept in sixteenths of a pixel: the corners are integers and the code    *)
(* only divides by 8 and multiplies by (col + 0.5), so every float it      *)
(* computes is an exact multiple of 1/16.                                  *)
(***************************************************************************)
EXTENDS Integers, Sequences, FiniteSets, TLC

VARIABLES
    pc,                 \* position in main(), or in the function called alone
    color,              \* the tracked colour (third value of get_initial_board_position)
    upper_left_corner,  \* Point, whole pixels
    lower_right_corner, \* Point, whole pixels
    square_centers,     \* the click grid [row][col] -> Point in sixteenths
    board,              \* the piece matrix [row][col] -> symbol
    fen,                \* the FEN text
    best_move,          \* the move text, or None
    effects,            \* side effects of the current iteration, in order
    stdout,             \* lines printed in the current iteration, in order
    engine_fen,         \* the position last given to set_fen_position
    fault,              \* "none", or the uncaught exception
    none_outputs        \* history: {<<accepted, lines after the FEN line>>} of the
                        \* iterations in which calculate_stockfish returned None

vars == <<pc, color, upper_left_corner, lower_right_corner, square_centers, board,
          fen, best_move, effects, stdout, engine_fen, fault, none_outputs>>

-----------------------------------------------------------------------------
(* Bounds of the model *)

\* the region's corner is drawn from 0..MaxOrigin on each axis
MaxOrigin == 2
\* the region's width and height are drawn from 1..MaxExtent
MaxExtent == 4
\* the engine moves a piece by at most MaxStep squares
MaxStep == 1

\* range(8), range(8, 0, -1), range(1, 9): the side of the board
BoardSize == 8

Idx == 0 .. (BoardSize - 1)

-----------------------------------------------------------------------------
(* Python values *)

None == <<"None">>

Point(x, y) == [x |-> x, y |-> y]

\* a list of lists written row by row, as a 0-based matrix
Matrix(rows) == [r \in Idx |-> [c \in Idx |-> rows[r + 1][c + 1]]]

Digits == <<"0", "1", "2", "3", "4", "5", "6", "7", "8", "9">>

IsDigit(ch) == \E i \in 1 .. 10 : Digits[i] = ch

\* str(n) of a natural number: its decimal digits
RECURSIVE str(_)
str(n) ==
    IF n < 10 THEN <<Digits[n + 1]>>
    ELSE str(n \div 10) \o <<Digits[(n % 10) + 1]>>

\* int(ch) of a one-character string that is a digit
int(ch) == (CHOOSE i \in 1 .. 10 : Digits[i] = ch) - 1

\* the code points of the characters the model uses as file letters
CodePoints ==
    [ch \in {"X", "Y", "_", "a", "b", "c", "d", "e", "f", "g", "h", "i"} |->
        CASE ch = "X" -> 88 [] ch = "Y" -> 89 [] ch = "_" -> 95
          [] ch = "a" -> 97 [] ch = "b" -> 98 [] ch = "c" -> 99
          [] ch = "d" -> 100 [] ch = "e" -> 101 [] ch = "f" -> 102
          [] ch = "g" -> 103 [] ch = "h" -> 104 [] ch = "i" -> 105]

ord(ch) == CodePoints[ch]

\* list[i]: an index in -n..-1 counts from the end, any other index outside
\* 0..n-1 raises IndexError
InRange(i, n) == -n <= i /\ i < n

Subscript(list, i, n) == list[IF i < 0 THEN i + n ELSE i]

-----------------------------------------------------------------------------
(* class Chessboard *)

get_initial_board_position ==
    [upper |-> Point(19, 182), lower |-> Point(785, 948), color |-> "black"]

\* calculate_centers with the height of a square used for its width
calculate_centers_swapped(upper, lower) ==
    LET square_width == (16 * (lower.x - upper.x)) \div 8
        square_height == (16 * (lower.y - upper.y)) \div 8
    IN  [row \in Idx |-> [col \in Idx |->
            Point(16 * upper.x + ((2 * col + 1) * square_height) \div 2,
                  16 * upper.y + ((2 * row + 1) * square_height) \div 2)]]

\* square_width and square_height in sixteenths; (col + 0.5) as (2 col + 1) / 2
calculate_centers(upper, lower) ==
    LET square_width == (16 * (lower.x - upper.x)) \div 8
        square_height == (16 * (lower.y - upper.y)) \div 8
    IN  [row \in Idx |-> [col \in Idx |->
            Point(16 * upper.x + ((2 * col + 1) * square_width) \div 2,
                  16 * upper.y + ((2 * row + 1) * square_height) \div 2)]]

\* pyautogui.click(x, y), pyautogui.screenshot(...).save(...) and the calls on
\* self.stockfish, as entries of the effects log
Effect(kind) == [kind |-> kind, x |-> 0, y |-> 0]

Click(p) == [kind |-> "click", x |-> p.x, y |-> p.y]

Raise(exception) == [fault |-> exception, clicks |-> <<>>]

\* The text of move is 1-based here: move[1] is the move[0] of the code.
\* What lines 74-77 raise: move[i] past the end of the text is an IndexError,
\* int() of a character that is no digit a ValueError.
MoveFault(move) ==
    IF Len(move) < 2 THEN "IndexError"
    ELSE IF ~IsDigit(move[2]) THEN "ValueError"
    ELSE IF Len(move) < 4 THEN "IndexError"
    ELSE IF ~IsDigit(move[4]) THEN "ValueError"
    ELSE "none"

\* lines 74-77
MoveIndices(move) ==
    [origin_column |-> ord(move[1]) - ord("a"),
     origin_row |-> 8 - int(move[2]),
     dest_column |-> ord(move[3]) - ord("a"),
     dest_row |-> 8 - int(move[4])]

\* board_coords[row][column] of an 8x8 list of lists
Has(row, column) == InRange(row, BoardSize) /\ InRange(column, BoardSize)

At(board_coords, row, column) ==
    Subscript(Subscript(board_coords, row, BoardSize), column, BoardSize)

\* make_move clicking the destination before the origin
make_move_dest_first(board_coords, move) ==
    IF MoveFault(move) # "none" THEN Raise(MoveFault(move))
    ELSE
        LET i == MoveIndices(move)
        IN  IF ~Has(i.origin_row, i.origin_column) \/ ~Has(i.dest_row, i.dest_column)
            THEN Raise("IndexError")
            ELSE [fault |-> "none",
                  clicks |-> <<Click(At(board_coords, i.dest_row, i.dest_column)),
                               Click(At(board_coords, i.origin_row, i.origin_column))>>]

\* make_move clicking the origin before it looks the destination up
make_move_click_early(board_coords, move) ==
    IF MoveFault(move) # "none" THEN Raise(MoveFault(move))
    ELSE
        LET i == MoveIndices(move)
        IN  IF ~Has(i.origin_row, i.origin_column)
            THEN Raise("IndexError")
            ELSE IF ~Has(i.dest_row, i.dest_column)
            THEN [fault |-> "IndexError",
                  clicks |-> <<Click(At(board_coords, i.origin_row, i.origin_column))>>]
            ELSE [fault |-> "none",
                  clicks |-> <<Click(At(board_coords, i.origin_row, i.origin_column)),
                               Click(At(board_coords, i.dest_row, i.dest_column))>>]

\* Both lookups (lines 80-81) run before the first click (line 84), so a fault
\* leaves no click behind.
make_move(board_coords, move) ==
    IF MoveFault(move) # "none" THEN Raise(MoveFault(move))
    ELSE
        LET i == MoveIndices(move)
        IN  IF ~Has(i.origin_row, i.origin_column) \/ ~Has(i.dest_row, i.dest_column)
            THEN Raise("IndexError")
            ELSE [fault |-> "none",
                  clicks |-> <<Click(At(board_coords, i.origin_row, i.origin_column)),
                               Click(At(board_coords, i.dest_row, i.dest_column))>>]

-----------------------------------------------------------------------------
(* class ChessEngine *)

get_board_from_screenshot ==
    Matrix(<< <<"R", "-", "B", "K", "-", "-", "-", "R">>,
              <<"-", "P", "P", "-", "P", "-", "-", "-">>,
              <<"-", "-", "-", "P", "-", "-", "-", "-">>,
              <<"P", "b", "-", "-", "-", "-", "n", "-">>,
              <<"-", "-", "-", "-", "P", "-", "-", "-">>,
              <<"p", "p", "B", "-", "-", "-", "-", "-">>,
              <<"-", "-", "-", "-", "-", "-", "p", "p">>,
              <<"-", "k", "-", "r", "-", "-", "-", "r">> >>)

\* The inner loop (lines 131-139) from `column` on: what it appends to fen, and
\* the count of empty squares not yet written.
RECURSIVE ColumnLoop(_, _, _, _)
ColumnLoop(board_row, column, empty_counter, appended) ==
    IF column > BoardSize THEN [fen |-> appended, empty_counter |-> empty_counter]
    ELSE
        LET square == board_row[column - 1]
        IN  IF square = "-"
            THEN ColumnLoop(board_row, column + 1, empty_counter + 1, appended)
            ELSE ColumnLoop(board_row, column + 1, 0,
                            (IF empty_counter > 0 THEN appended \o str(empty_counter)
                                                  ELSE appended) \o <<square>>)

\* the pass without lines 140-141: the empty squares that end a row are not written
RowPass_no_trailing(board_row) ==
    ColumnLoop(board_row, 1, 0, <<>>).fen \o <<"/">>

\* What one pass of the outer loop body (lines 130-142) appends to fen
RowPass(board_row) ==
    LET r == ColumnLoop(board_row, 1, 0, <<>>)
    IN  (IF r.empty_counter > 0 THEN r.fen \o str(r.empty_counter) ELSE r.fen) \o <<"/">>

\* The outer loop with the matrix read from its last row to its first
RECURSIVE RowLoop_bottom_up(_, _)
RowLoop_bottom_up(board_pieces, row) ==
    IF row < 1 THEN <<>>
    ELSE RowPass(board_pieces[row - 1]) \o RowLoop_bottom_up(board_pieces, row - 1)

\* The outer loop (line 129) from `row` on: row runs 8, 7, .., 1 and the pass
\* for row reads board_pieces[8 - row]
RECURSIVE RowLoop(_, _)
RowLoop(board_pieces, row) ==
    IF row < 1 THEN <<>>
    ELSE RowPass(board_pieces[8 - row]) \o RowLoop(board_pieces, row - 1)

\* fen[:-1]
DropLast(text) == SubSeq(text, 1, Len(text) - 1)

\* lines 148-151 with the two branches exchanged
ActiveColorSuffix_same(color_to_move) ==
    IF color_to_move = "black"
    THEN <<" ", "b", " ", "-", " ", "-", " ", "0", " ", "1">>
    ELSE <<" ", "w", " ", "-", " ", "-", " ", "0", " ", "1">>

ActiveColorSuffix(color_to_move) ==
    IF color_to_move = "black"
    THEN <<" ", "w", " ", "-", " ", "-", " ", "0", " ", "1">>
    ELSE <<" ", "b", " ", "-", " ", "-", " ", "0", " ", "1">>

board_to_fen(board_pieces, color_to_move) ==
    DropLast(RowLoop(board_pieces, BoardSize)) \o ActiveColorSuffix(color_to_move)

\* A printed line: its fixed text and the value formatted into it
Line(text, arg) == [text |-> text, arg |-> arg]

\* calculate_stockfish setting the position before it asks whether the FEN is valid
calculate_stockfish_set_first(position, fen_text, valid, best) ==
    IF valid
    THEN [ret |-> best, position |-> fen_text, printed |-> <<>>,
          calls |-> <<Effect("set_fen_position"), Effect("is_fen_valid -> True"),
                      Effect("get_best_move")>>]
    ELSE [ret |-> None, position |-> fen_text, printed |-> <<Line("Invalid FEN", <<>>)>>,
          calls |-> <<Effect("set_fen_position"), Effect("is_fen_valid -> False")>>]

\* calculate_stockfish without its own print
calculate_stockfish_quiet(position, fen_text, valid, best) ==
    IF valid
    THEN [ret |-> best, position |-> fen_text, printed |-> <<>>,
          calls |-> <<Effect("is_fen_valid -> True"), Effect("set_fen_position"),
                      Effect("get_best_move")>>]
    ELSE [ret |-> None, position |-> position, printed |-> <<>>,
          calls |-> <<Effect("is_fen_valid -> False")>>]

\* `valid` is what self.stockfish.is_fen_valid answers and `best` what
\* get_best_move answers (a move, or None); position is the position the engine
\* holds.  The log entry of is_fen_valid carries the answer.
calculate_stockfish(position, fen_text, valid, best) ==
    IF valid
    THEN [ret |-> best, position |-> fen_text, printed |-> <<>>,
          calls |-> <<Effect("is_fen_valid -> True"), Effect("set_fen_position"),
                      Effect("get_best_move")>>]
    ELSE [ret |-> None, position |-> position, printed |-> <<Line("Invalid FEN", <<>>)>>,
          calls |-> <<Effect("is_fen_valid -> False")>>]

-----------------------------------------------------------------------------
(* main *)

\* line 185 reversing the rows only
ReverseCenters_rows_only(centers) ==
    [row \in Idx |-> [col \in Idx |-> centers[BoardSize - 1 - row][col]]]

\* [list(reversed(row)) for row in reversed(square_centers)]
ReverseCenters(centers) ==
    [row \in Idx |-> [col \in Idx |-> centers[BoardSize - 1 - row][BoardSize - 1 - col]]]

\* line 197 left out: the matrix goes to board_to_fen as captured
FlipBoard_not(pieces) == pieces

\* [list(reversed(row)) for row in reversed(board)]
FlipBoard(pieces) ==
    [row \in Idx |-> [col \in Idx |-> pieces[BoardSize - 1 - row][BoardSize - 1 - col]]]

Files == {"a", "b", "c", "d", "e", "f", "g", "h"}
Ranks == {"1", "2", "3", "4", "5", "6", "7", "8"}

\* every move text of a file letter, a rank digit, a file letter and a rank digit
WellFormedMoves ==
    {<<f1, r1, f2, r2>> : f1 \in Files, r1 \in Ranks, f2 \in Files, r2 \in Ranks}

Distance(a, b) == IF a < b THEN b - a ELSE a - b

\* what get_best_move answers here when it finds a move: a step of 1..MaxStep
\* squares along a file or along a rank, from any square of the board
EngineMoves ==
    {m \in WellFormedMoves :
        LET df == Distance(ord(m[1]), ord(m[3]))
            dr == Distance(int(m[2]), int(m[4]))
        IN  \/ df = 0 /\ dr \in 1 .. MaxStep
            \/ dr = 0 /\ df \in 1 .. MaxStep}

\* the printed lines that follow the FEN line
RECURSIVE AfterFenLine(_)
AfterFenLine(lines) ==
    IF lines = <<>> THEN <<>>
    ELSE IF Head(lines).text = "FEN notation: " THEN Tail(lines)
    ELSE AfterFenLine(Tail(lines))

Called(kind) == \E i \in 1 .. Len(effects) : effects[i].kind = kind

\* lines 177-180
GetPosition ==
    /\ pc = "start"
    /\ upper_left_corner' = get_initial_board_position.upper
    /\ lower_right_corner' = get_initial_board_position.lower
    /\ color' = get_initial_board_position.color
    /\ stdout' = <<Line("Got initial chessboard position: ", <<>>)>>
    /\ pc' = "position"
    /\ UNCHANGED <<square_centers, board, fen, best_move, effects, engine_fen, fault,
                   none_outputs>>

\* lines 183-187
SquareCenters ==
    /\ pc = "position"
    /\ square_centers' =
          IF color = "black"
          THEN ReverseCenters(calculate_centers(upper_left_corner, lower_right_corner))
          ELSE calculate_centers(upper_left_corner, lower_right_corner)
    /\ pc' = "loop"
    /\ UNCHANGED <<color, upper_left_corner, lower_right_corner, board, fen, best_move,
                   effects, stdout, engine_fen, fault, none_outputs>>

\* line 188 with the deadline not reached, then lines 189-197
Capture ==
    /\ pc = "loop"
    /\ effects' = <<Effect("screenshot")>>
    /\ board' = IF color = "black" THEN FlipBoard(get_board_from_screenshot)
                                   ELSE get_board_from_screenshot
    /\ stdout' = IF color = "black"
                 THEN <<Line("Starting as black, flipping board", <<>>)>>
                 ELSE <<>>
    /\ pc' = "captured"
    /\ UNCHANGED <<color, upper_left_corner, lower_right_corner, square_centers, fen,
                   best_move, engine_fen, fault, none_outputs>>

\* line 188 with the 90 seconds over
Deadline ==
    /\ pc = "loop"
    /\ pc' = "done"
    /\ UNCHANGED <<color, upper_left_corner, lower_right_corner, square_centers, board,
                   fen, best_move, effects, stdout, engine_fen, fault, none_outputs>>

\* lines 199-200
Encode ==
    /\ pc = "captured"
    /\ fen' = board_to_fen(board, color)
    /\ stdout' = Append(stdout, Line("FEN notation: ", fen'))
    /\ pc' = "encoded"
    /\ UNCHANGED <<color, upper_left_corner, lower_right_corner, square_centers, board,
                   best_move, effects, engine_fen, fault, none_outputs>>

\* line 202
Query ==
    /\ pc = "encoded"
    /\ \E valid \in BOOLEAN :
       \E best \in IF valid THEN EngineMoves \cup {None} ELSE {None} :
          LET r == calculate_stockfish(engine_fen, fen, valid, best)
          IN  /\ best_move' = r.ret
              /\ engine_fen' = r.position
              /\ effects' = effects \o r.calls
              /\ stdout' = stdout \o r.printed
    /\ pc' = "queried"
    /\ UNCHANGED <<color, upper_left_corner, lower_right_corner, square_centers, board,
                   fen, fault, none_outputs>>

\* lines 203-214
Act ==
    /\ pc = "queried"
    /\ IF best_move # None
       THEN LET r == make_move(square_centers, best_move)
                shown == stdout \o
                    <<Line(IF color = "black" THEN "get_board_visual(False)"
                                              ELSE "get_board_visual()", <<>>),
                      Line("Stockfish best move for the current position: ", best_move),
                      Line("Making move...\n", <<>>)>>
            IN  /\ effects' = effects \o r.clicks
                /\ fault' = r.fault
                /\ stdout' = IF r.fault = "none"
                             THEN Append(shown, Line("----------\n", <<>>))
                             ELSE shown
                /\ pc' = IF r.fault = "none" THEN "loop" ELSE "crashed"
                /\ UNCHANGED none_outputs
       ELSE /\ stdout' = Append(stdout, Line("Invalid FEN", <<>>))
            /\ none_outputs' = none_outputs \cup
                  {[accepted |-> Called("get_best_move"), lines |-> AfterFenLine(stdout')]}
            /\ pc' = "loop"
            /\ UNCHANGED <<effects, fault>>
    /\ UNCHANGED <<color, upper_left_corner, lower_right_corner, square_centers, board,
                   fen, best_move, engine_fen>>

NoGrid == [row \in Idx |-> [col \in Idx |-> Point(0, 0)]]
EmptyBoard == [row \in Idx |-> [col \in Idx |-> "-"]]

Init ==
    /\ pc = "start"
    /\ color = ""
    /\ upper_left_corner = Point(0, 0)
    /\ lower_right_corner = Point(0, 0)
    /\ square_centers = NoGrid
    /\ board = EmptyBoard
    /\ fen = <<>>
    /\ best_move = None
    /\ effects = <<>>
    /\ stdout = <<>>
    /\ engine_fen = <<>>
    /\ fault = "none"
    /\ none_outputs = {}

Next == GetPosition \/ SquareCenters \/ Capture \/ Deadline \/ Encode \/ Query \/ Act

Spec == Init /\ [][Next]_vars

-----------------------------------------------------------------------------
(* main from any answer of get_initial_board_position: either side, and a      *)
(* second, non-square region                                                   *)

SideInputs == {"black", "white"}

RegionInputs ==
    {<<get_initial_board_position.upper, get_initial_board_position.lower>>,
     <<Point(MaxOrigin, 0), Point(MaxOrigin + MaxExtent, 2 * MaxExtent)>>}

InitSides ==
    /\ pc = "position"
    /\ color \in SideInputs
    /\ \E region \in RegionInputs :
          /\ upper_left_corner = region[1]
          /\ lower_right_corner = region[2]
    /\ square_centers = NoGrid
    /\ board = EmptyBoard
    /\ fen = <<>>
    /\ best_move = None
    /\ effects = <<>>
    /\ stdout = <<Line("Got initial chessboard position: ", <<>>)>>
    /\ engine_fen = <<>>
    /\ fault = "none"
    /\ none_outputs = {}

NextSides == SquareCenters \/ Capture \/ Deadline \/ Encode \/ Query \/ Act

SpecSides == InitSides /\ [][NextSides]_vars

-----------------------------------------------------------------------------
(* calculate_centers alone, on regions of positive width and height *)

CornerInputs ==
    {<<get_initial_board_position.upper, get_initial_board_position.lower>>}
    \cup {<<Point(x, y), Point(x + w, y + h)>> :
             x \in 0 .. MaxOrigin, y \in 0 .. MaxOrigin,
             w \in 1 .. MaxExtent, h \in 1 .. MaxExtent}

InitCenters ==
    /\ pc = "calculate_centers"
    /\ color = ""
    /\ \E region \in CornerInputs :
          /\ upper_left_corner = region[1]
          /\ lower_right_corner = region[2]
    /\ square_centers = NoGrid
    /\ board = EmptyBoard
    /\ fen = <<>>
    /\ best_move = None
    /\ effects = <<>>
    /\ stdout = <<>>
    /\ engine_fen = <<>>
    /\ fault = "none"
    /\ none_outputs = {}

CentersCall ==
    /\ pc = "calculate_centers"
    /\ square_centers' = calculate_centers(upper_left_corner, lower_right_corner)
    /\ pc' = "returned"
    /\ UNCHANGED <<color, upper_left_corner, lower_right_corner, board, fen, best_move,
                   effects, stdout, engine_fen, fault, none_outputs>>

SpecCenters == InitCenters /\ [][CentersCall]_vars

-----------------------------------------------------------------------------
(* make_move alone, on move texts of four characters, well-formed or not *)

FileInputs == DOMAIN CodePoints

RankInputs == {Digits[i] : i \in 1 .. 10} \cup {"x"}

MoveInputs ==
    {<<f1, r1, f2, r2>> :
        f1 \in FileInputs, r1 \in RankInputs, f2 \in FileInputs, r2 \in RankInputs}

GridInputs ==
    {calculate_centers(get_initial_board_position.upper, get_initial_board_position.lower),
     ReverseCenters(calculate_centers(get_initial_board_position.upper,
                                      get_initial_board_position.lower))}

InitMove ==
    /\ pc = "make_move"
    /\ color = ""
    /\ upper_left_corner = get_initial_board_position.upper
    /\ lower_right_corner = get_initial_board_position.lower
    /\ square_centers \in GridInputs
    /\ board = EmptyBoard
    /\ fen = <<>>
    /\ best_move \in MoveInputs
    /\ effects = <<>>
    /\ stdout = <<>>
    /\ engine_fen = <<>>
    /\ fault = "none"
    /\ none_outputs = {}

MoveCall ==
    /\ pc = "make_move"
    /\ LET r == make_move(square_centers, best_move)
       IN  /\ effects' = r.clicks
           /\ fault' = r.fault
    /\ pc' = "returned"
    /\ UNCHANGED <<color, upper_left_corner, lower_right_corner, square_centers, board,
                   fen, best_move, stdout, engine_fen, none_outputs>>

SpecMove == InitMove /\ [][MoveCall]_vars

-----------------------------------------------------------------------------
(* board_to_fen alone.  A board is one of four base matrices with one row     *)
(* replaced: each square of that row is empty or holds the piece FullBoard has *)
(* there, in all 2^8 ways.                                                     *)

Pieces == <<"R", "N", "B", "Q", "K", "P", "r", "n", "b", "q", "k", "p">>

FullBoard == [row \in Idx |-> [col \in Idx |-> Pieces[((5 * row + col) % 12) + 1]]]

StartBoard ==
    Matrix(<< <<"r", "n", "b", "q", "k", "b", "n", "r">>,
              <<"p", "p", "p", "p", "p", "p", "p", "p">>,
              <<"-", "-", "-", "-", "-", "-", "-", "-">>,
              <<"-", "-", "-", "-", "-", "-", "-", "-">>,
              <<"-", "-", "-", "-", "-", "-", "-", "-">>,
              <<"-", "-", "-", "-", "-", "-", "-", "-">>,
              <<"P", "P", "P", "P", "P", "P", "P", "P">>,
              <<"R", "N", "B", "Q", "K", "B", "N", "R">> >>)

BaseBoards == {get_board_from_screenshot, EmptyBoard, FullBoard, StartBoard}

BoardInputs ==
    {[base EXCEPT ![k] = [col \in Idx |-> IF occupied[col] THEN FullBoard[k][col] ELSE "-"]] :
        base \in BaseBoards, k \in Idx, occupied \in [Idx -> BOOLEAN]}

ColorInputs == {"black", "white", "w"}

InitFen ==
    /\ pc = "board_to_fen"
    /\ color \in ColorInputs
    /\ upper_left_corner = Point(0, 0)
    /\ lower_right_corner = Point(0, 0)
    /\ square_centers = NoGrid
    /\ board \in BoardInputs
    /\ fen = <<>>
    /\ best_move = None
    /\ effects = <<>>
    /\ stdout = <<>>
    /\ engine_fen = <<>>
    /\ fault = "none"
    /\ none_outputs = {}

FenCall ==
    /\ pc = "board_to_fen"
    /\ fen' = board_to_fen(board, color)
    /\ pc' = "returned"
    /\ UNCHANGED <<color, upper_left_corner, lower_right_corner, square_centers, board,
                   best_move, effects, stdout, engine_fen, fault, none_outputs>>

SpecFen == InitFen /\ [][FenCall]_vars

-----------------------------------------------------------------------------
(* Reading a FEN text, as the engine that receives it does: the piece         *)
(* placement is the text before the first space, its ranks are separated by   *)
(* "/", the first rank is rank 8 and the last rank 1, and within a rank a     *)
(* digit stands for that many empty squares, from file a to file h.           *)

FirstSpace(text) ==
    CHOOSE i \in 1 .. Len(text) : text[i] = " " /\ \A j \in 1 .. (i - 1) : text[j] # " "

PlacementField(text) == SubSeq(text, 1, FirstSpace(text) - 1)

AfterPlacement(text) == SubSeq(text, FirstSpace(text), Len(text))

RECURSIVE SplitRanks(_, _)
SplitRanks(text, current) ==
    IF text = <<>> THEN <<current>>
    ELSE IF Head(text) = "/" THEN <<current>> \o SplitRanks(Tail(text), <<>>)
    ELSE SplitRanks(Tail(text), Append(current, Head(text)))

RankStrings(text) == SplitRanks(PlacementField(text), <<>>)

RECURSIVE Expand(_)
Expand(rank) ==
    IF rank = <<>> THEN <<>>
    ELSE IF IsDigit(Head(rank))
         THEN [i \in 1 .. int(Head(rank)) |-> "-"] \o Expand(Tail(rank))
         ELSE <<Head(rank)>> \o Expand(Tail(rank))

RowText(board_row) == [i \in 1 .. BoardSize |-> board_row[i - 1]]

CountOf(ch, text) == Cardinality({i \in 1 .. Len(text) : text[i] = ch})

DigitCount(text) == Cardinality({i \in 1 .. Len(text) : IsDigit(text[i])})

\* no "-", no "0", no two digits side by side
Collapsed(rank) ==
    /\ \A i \in 1 .. Len(rank) : rank[i] # "-" /\ rank[i] # "0"
    /\ \A i \in 1 .. (Len(rank) - 1) : ~(IsDigit(rank[i]) /\ IsDigit(rank[i + 1]))

FileNumber(ch) ==
    CASE ch = "a" -> 0 [] ch = "b" -> 1 [] ch = "c" -> 2 [] ch = "d" -> 3
      [] ch = "e" -> 4 [] ch = "f" -> 5 [] ch = "g" -> 6 [] ch = "h" -> 7

RankNumber(ch) ==
    CASE ch = "1" -> 1 [] ch = "2" -> 2 [] ch = "3" -> 3 [] ch = "4" -> 4
      [] ch = "5" -> 5 [] ch = "6" -> 6 [] ch = "7" -> 7 [] ch = "8" -> 8

FileLetters == <<"a", "b", "c", "d", "e", "f", "g", "h">>

\* the piece the FEN text shows on the square named by a file letter and a rank digit
PieceOn(text, file, rank) ==
    Expand(RankStrings(text)[9 - RankNumber(rank)])[FileNumber(file) + 1]

Clicks == SelectSeq(effects, LAMBDA e : e.kind = "click")

-----------------------------------------------------------------------------
(* C1 *)

\* C1: board_to_fen writes each row as a rank string in which every maximal run
\* of "-" squares is one digit, the length of the run, and every occupied square
\* is its own symbol, in order: each rank string expands back to the 8 squares of
\* a row and each row is the expansion of a rank string, no rank string holds
\* "-", "0" or two digits side by side, an all-empty row is exactly "8", and a
\* row with no empty square is 8 symbols and no digit.
C1_RankEncoding ==
    pc = "returned" =>
        LET ranks == RankStrings(fen)
        IN  /\ \A i \in 1 .. Len(ranks) :
                  /\ Collapsed(ranks[i])
                  /\ Len(Expand(ranks[i])) = BoardSize
                  /\ \E row \in Idx : Expand(ranks[i]) = RowText(board[row])
            /\ \A row \in Idx :
                  /\ \E i \in 1 .. Len(ranks) : Expand(ranks[i]) = RowText(board[row])
                  /\ (\A col \in Idx : board[row][col] = "-") =>
                        \E i \in 1 .. Len(ranks) : ranks[i] = <<"8">>
                  /\ (\A col \in Idx : board[row][col] # "-") =>
                        \E i \in 1 .. Len(ranks) :
                            /\ ranks[i] = RowText(board[row])
                            /\ Len(ranks[i]) = BoardSize
                            /\ DigitCount(ranks[i]) = 0

\* a board with an all-empty row, a row with no empty square, and a row with a
\* run of empty squares inside it and one at its end, has been encoded
C1_Witness ==
    /\ pc = "returned"
    /\ \E row \in Idx : \A col \in Idx : board[row][col] = "-"
    /\ \E row \in Idx : \A col \in Idx : board[row][col] # "-"
    /\ \E row \in Idx :
          /\ board[row][0] # "-" /\ board[row][1] = "-" /\ board[row][2] = "-"
          /\ board[row][3] # "-" /\ board[row][6] = "-" /\ board[row][7] = "-"

-----------------------------------------------------------------------------
(* C2 *)

\* C2 as stated: the piece placement is 8 rank strings joined by 7 "/" with no
\* trailing separator, the first rank string encodes matrix row 7 and the last
\* matrix row 0, each row read from column 0 to column 7.
C2_LastRowFirst ==
    pc = "returned" =>
        LET ranks == RankStrings(fen)
        IN  /\ Len(ranks) = BoardSize
            /\ CountOf("/", PlacementField(fen)) = BoardSize - 1
            /\ \A i \in 1 .. BoardSize : Expand(ranks[i]) = RowText(board[BoardSize - i])

\* C2 amended: the piece placement is 8 non-empty rank strings joined by 7 "/"
\* with no trailing separator; board_to_fen walks the matrix from its first row
\* to its last, so the first rank string encodes matrix row 0 and the last
\* matrix row 7, each row read from column 0 to column 7.
C2_FirstRowFirst ==
    pc = "returned" =>
        LET ranks == RankStrings(fen)
            field == PlacementField(fen)
        IN  /\ Len(ranks) = BoardSize
            /\ CountOf("/", field) = BoardSize - 1
            /\ field[Len(field)] # "/"
            /\ \A i \in 1 .. BoardSize :
                  /\ ranks[i] # <<>>
                  /\ Expand(ranks[i]) = RowText(board[i - 1])

\* a board whose first and last rows differ has been encoded
C2_Witness ==
    /\ pc = "returned"
    /\ board[0] # board[BoardSize - 1]
    /\ board[0][0] # board[0][BoardSize - 1]

-----------------------------------------------------------------------------
(* C3 *)

\* C3: what board_to_fen appends after the piece placement depends on the color
\* alone: " w - - 0 1" for "black", " b - - 0 1" for any other value, whatever
\* the board.
C3_FixedFields ==
    pc = "returned" =>
        AfterPlacement(fen) =
            IF color = "black"
            THEN <<" ", "w", " ", "-", " ", "-", " ", "0", " ", "1">>
            ELSE <<" ", "b", " ", "-", " ", "-", " ", "0", " ", "1">>

\* the stub board and another board, encoded for "black"
C3_Witness ==
    /\ pc = "returned"
    /\ color = "black"
    /\ board # get_board_from_screenshot
    /\ fen[Len(fen) - 8] = "w"

-----------------------------------------------------------------------------
(* C4 *)

\* C4: for every well-formed move f1 r1 f2 r2, make_move issues exactly two
\* clicks, first at grid[8 - r1][f1 - 'a'] and then at grid[8 - r2][f2 - 'a'];
\* "e2e4" clicks grid[6][4] and then grid[4][4].
C4_TwoClicksInOrder ==
    pc = "returned" /\ best_move \in WellFormedMoves =>
        /\ fault = "none"
        /\ effects =
              <<Click(square_centers[8 - RankNumber(best_move[2])][FileNumber(best_move[1])]),
                Click(square_centers[8 - RankNumber(best_move[4])][FileNumber(best_move[3])])>>
        /\ best_move = <<"e", "2", "e", "4">> =>
              effects = <<Click(square_centers[6][4]), Click(square_centers[4][4])>>

\* "e2e4" has been played on the grid of the hardcoded region
C4_Witness ==
    /\ pc = "returned"
    /\ best_move = <<"e", "2", "e", "4">>
    /\ Len(effects) = 2
    /\ effects[1] # effects[2]

-----------------------------------------------------------------------------
(* C5 *)

\* the four indices lines 74-77 compute, for a move whose rank characters are digits
RowOf(ch) == 8 - (CHOOSE n \in 0 .. 9 : Digits[n + 1] = ch)
ColumnOf(ch) == CodePoints[ch] - 97

IndicesOf(move) == <<RowOf(move[2]), ColumnOf(move[1]), RowOf(move[4]), ColumnOf(move[3])>>

DigitRanks(move) == IsDigit(move[2]) /\ IsDigit(move[4])

\* C5 as stated: when a computed row or column lies outside 0..7, make_move
\* raises a lookup fault and issues no click.
C5_OutOfRangeFaults ==
    (/\ pc = "returned"
     /\ DigitRanks(best_move)
     /\ \E k \in 1 .. 4 : IndicesOf(best_move)[k] \notin 0 .. 7)
        => fault = "IndexError" /\ effects = <<>>

\* C5 amended: when a computed row or column lies outside -8..7 (8 or more, or
\* less than -8), make_move raises a lookup fault and issues no click at all.
\* An index in -8..-1 (rank digit '9' gives row -1) raises no fault: it counts
\* from the end of the list, and make_move issues its two clicks, at
\* grid[row mod 8][column mod 8].
C5_LookupFault ==
    pc = "returned" /\ DigitRanks(best_move) =>
        LET i == IndicesOf(best_move)
        IN  IF \E k \in 1 .. 4 : i[k] \notin -8 .. 7
            THEN fault = "IndexError" /\ effects = <<>>
            ELSE /\ fault = "none"
                 /\ effects = <<Click(square_centers[i[1] % 8][i[2] % 8]),
                                Click(square_centers[i[3] % 8][i[4] % 8])>>

\* a move whose origin is on the board and whose destination row is 8 has faulted
C5_Witness ==
    /\ pc = "returned"
    /\ best_move = <<"e", "2", "e", "0">>
    /\ fault = "IndexError"

-----------------------------------------------------------------------------
(* C6 *)

IterationOver == pc = "loop" /\ effects # <<>>

\* C6: a click is issued only after the capture and the engine query of the same
\* iteration, and only when the query returned a move.  An iteration whose query
\* returned None issues no click, raises nothing, and leaves the loop at its
\* head, where the next capture can follow; an iteration whose query returned a
\* move issues exactly two clicks, after the capture and the query.  When the
\* engine rejects the FEN, calculate_stockfish returns None and neither sets the
\* position nor asks for a best move.
C6_ClicksOnlyAfterMove ==
    /\ pc # "crashed" /\ fault = "none"
    /\ \A i \in 1 .. Len(effects) :
          effects[i].kind = "click" =>
              /\ best_move # None
              /\ effects[1].kind = "screenshot"
              /\ \E j \in 2 .. (i - 1) : effects[j].kind = "get_best_move"
    /\ IterationOver /\ best_move = None =>
          /\ Clicks = <<>>
          /\ ENABLED Capture
    /\ IterationOver /\ best_move # None =>
          /\ Len(Clicks) = 2
          /\ Len(effects) = 6
          /\ effects[1].kind = "screenshot"
          /\ effects[4].kind = "get_best_move"
          /\ effects[5].kind = "click" /\ effects[6].kind = "click"
    /\ Called("is_fen_valid -> False") =>
          /\ pc \in {"queried", "loop", "done"} => best_move = None
          /\ ~Called("set_fen_position")
          /\ ~Called("get_best_move")
    /\ Called("set_fen_position") \/ Called("get_best_move") =>
          effects[2].kind = "is_fen_valid -> True"

\* an iteration that returned None has been followed by one that clicked twice
C6_Witness ==
    /\ IterationOver
    /\ none_outputs # {}
    /\ Len(Clicks) = 2

-----------------------------------------------------------------------------
(* C7 *)

\* C7 as stated: the lines printed after the FEN line are the same in every
\* iteration in which calculate_stockfish returned None, whether the engine
\* accepted the FEN (and found no move) or rejected it.
C7_SameOutput ==
    \A a \in none_outputs : \A b \in none_outputs : a.lines = b.lines

\* C7 amended: an iteration in which the engine accepts the FEN and finds no
\* move prints one line after the FEN line, "Invalid FEN" (from main); an
\* iteration in which the engine rejects the FEN prints that line twice (from
\* calculate_stockfish, then from main).  The text is the same; the number of
\* lines tells the two cases apart.
C7_OneLineOrTwo ==
    /\ \A a \in none_outputs :
          a.lines = IF a.accepted
                    THEN <<Line("Invalid FEN", <<>>)>>
                    ELSE <<Line("Invalid FEN", <<>>), Line("Invalid FEN", <<>>)>>
    /\ IterationOver /\ best_move = None =>
          \E a \in none_outputs :
              /\ a.lines = AfterFenLine(stdout)
              /\ a.accepted = Called("get_best_move")

\* both cases have been seen
C7_Witness ==
    /\ IterationOver
    /\ \E a \in none_outputs : a.accepted
    /\ \E a \in none_outputs : ~a.accepted

-----------------------------------------------------------------------------
(* C8 *)

\* C8 as stated: with the stub matrix and side "black" the FEN main computes is
\* R1BK3R/1PP1P3/3P4/Pb4n1/4P3/ppB5/6pp/1k1r3r followed by active color w.
C8_StubAsCaptured ==
    pc = "encoded" =>
        /\ PlacementField(fen) =
              <<"R", "1", "B", "K", "3", "R", "/", "1", "P", "P", "1", "P", "3", "/",
                "3", "P", "4", "/", "P", "b", "4", "n", "1", "/", "4", "P", "3", "/",
                "p", "p", "B", "5", "/", "6", "p", "p", "/", "1", "k", "1", "r", "3",
                "r">>
        /\ AfterPlacement(fen)[2] = "w"

\* C8 amended: with the stub matrix and side "black", main reverses the matrix
\* in both axes before it encodes it, and the FEN it computes and passes to the
\* engine is r3r1k1/pp6/5Bpp/3P4/1n4bP/4P3/3P1PP1/R3KB1R followed by active
\* color w.
C8_StubFlipped ==
    /\ pc = "encoded" =>
          /\ color = "black"
          /\ PlacementField(fen) =
                <<"r", "3", "r", "1", "k", "1", "/", "p", "p", "6", "/", "5", "B", "p",
                  "p", "/", "3", "P", "4", "/", "1", "n", "4", "b", "P", "/", "4", "P",
                  "3", "/", "3", "P", "1", "P", "P", "1", "/", "R", "3", "K", "B", "1",
                  "R">>
          /\ AfterPlacement(fen)[2] = "w"
    /\ \A i \in 1 .. Len(effects) :
          effects[i].kind = "set_fen_position" => engine_fen = fen

\* the FEN of the stub has been computed and given to the engine
C8_Witness ==
    /\ pc = "queried"
    /\ color = "black"
    /\ Called("set_fen_position")
    /\ engine_fen = fen
    /\ fen # <<>>

-----------------------------------------------------------------------------
(* C9 *)

\* C9: for every region of positive width W and height H, cell [r][c] of the
\* grid calculate_centers returns is (x1 + (c + 0.5) W / 8, y1 + (r + 0.5) H / 8),
\* that is 16 x = 16 x1 + (2c + 1) W and 16 y = 16 y1 + (2r + 1) H; every center
\* lies strictly inside the region, x grows strictly with c and y with r.
C9_Centers ==
    pc = "returned" =>
        LET x1 == upper_left_corner.x
            y1 == upper_left_corner.y
            W == lower_right_corner.x - x1
            H == lower_right_corner.y - y1
        IN  /\ DOMAIN square_centers = Idx
            /\ \A r \in Idx :
                  /\ DOMAIN square_centers[r] = Idx
                  /\ \A c \in Idx :
                        LET p == square_centers[r][c]
                        IN  /\ p.x = 16 * x1 + (2 * c + 1) * W
                            /\ p.y = 16 * y1 + (2 * r + 1) * H
                            /\ 16 * x1 < p.x /\ p.x < 16 * lower_right_corner.x
                            /\ 16 * y1 < p.y /\ p.y < 16 * lower_right_corner.y
                            /\ c > 0 => square_centers[r][c - 1].x < p.x
                            /\ r > 0 => square_centers[r - 1][c].y < p.y

\* the grid of a region that is not square has been computed
C9_Witness ==
    /\ pc = "returned"
    /\ lower_right_corner.x - upper_left_corner.x
          # lower_right_corner.y - upper_left_corner.y
    /\ square_centers[0][0] # square_centers[7][7]

-----------------------------------------------------------------------------
(* C10 *)

\* the captured matrix with one piece, on screen cell (r, c)
OnePiece(r, c) ==
    [row \in Idx |-> [col \in Idx |-> IF row = r /\ col = c THEN "Q" ELSE "-"]]

\* the FEN main gives the engine when the recognizer sees `seen`
FenOf(seen) == board_to_fen(IF color = "black" THEN FlipBoard(seen) ELSE seen, color)

ScreenCenters == calculate_centers(upper_left_corner, lower_right_corner)

\* C10: with the grid and the matrix both reversed for "black" (and neither for
\* another side), the square name under which the FEN shows the piece seen on
\* screen cell (r, c) is mapped by make_move, on the grid main keeps, to the
\* center of screen cell (r, c) as calculate_centers computed it.  Checked for a
\* piece alone on each of the 64 cells once the grid is set up, and in every
\* iteration for the two squares of the move the engine returned: each click
\* lands on the cell where the recognizer saw the piece the FEN shows on that square.
C10_ReversalsCancel ==
    /\ pc = "loop" /\ effects = <<>> =>
          \A r \in Idx : \A c \in Idx :
              LET text == FenOf(OnePiece(r, c))
              IN  /\ \E f \in Files : \E k \in Ranks : PieceOn(text, f, k) = "Q"
                  /\ \A f \in Files : \A k \in Ranks :
                        PieceOn(text, f, k) = "Q" =>
                            make_move(square_centers, <<f, k, f, k>>).clicks
                                = <<Click(ScreenCenters[r][c]), Click(ScreenCenters[r][c])>>
    /\ IterationOver /\ best_move # None =>
          /\ Len(Clicks) = 2
          /\ \A n \in 1 .. 2 :
                \E r \in Idx : \E c \in Idx :
                    /\ Clicks[n] = Click(ScreenCenters[r][c])
                    /\ get_board_from_screenshot[r][c]
                          = PieceOn(fen, best_move[2 * n - 1], best_move[2 * n])

\* playing black on the non-square region, a move has been clicked
C10_Witness ==
    /\ IterationOver
    /\ color = "black"
    /\ upper_left_corner # get_initial_board_position.upper
    /\ Len(Clicks) = 2
    /\ square_centers = ReverseCenters(ScreenCenters)

=============================================================================
